---- MODULE Spec2Model ----
(***************************************************************************)
(* Student portal REST backend (express + mongodb driver).                 *)
(* The model covers the portal server (src/unnamed/part_002): its two      *)
(* collections and the request handlers that read and write them, and the  *)
(* token check and the course routes of the course API server              *)
(* (src/server.js, and its earlier version src/unnamed/part_001).  Every   *)
(* `await`ed store call of a handler is one atomic step; the synchronous   *)
(* code between two awaits belongs to the step of the await before it.     *)
(***************************************************************************)
EXTENDS Integers, Sequences, FiniteSets, TLC

(* ------------------------------ bounds --------------------------------- *)
\* largest capacity a request body carries
MaxCapacity == 2
\* the arrays enrolledStudents / enrolledCourses are not grown beyond this
MaxArrayLen == 2
\* number of store calls that may throw in one behaviour
MaxFaults == 1
\* longest course code a request carries
MaxCodeLen == 2

\* ObjectIds of the students that registered, of the courses that can be
\* inserted, and the request handlers that can be in flight together
StudentIds == {"s1", "s2"}
CourseIds == {"c1", "c2"}
ReqIds == {1, 2}

(* --------------------------- JavaScript values ------------------------- *)
Undefined == [t |-> "undefined", v |-> 0]
Null == [t |-> "null", v |-> 0]
Num(n) == [t |-> "number", v |-> n]
\* ToNumber as applied by the relational operators (null -> 0)
ToNumber(x) == x.v
\* truthiness of a number / null / undefined
Truthy(x) == x.t = "number" /\ x.v # 0
\* BSON serialisation of a field value: undefined is stored as null
Bson(x) == IF x.t = "undefined" THEN Null ELSE x

\* a string value: the sequence of its characters
Str(chars) == [t |-> "string", v |-> chars]
Upper(ch) == CASE ch = "c" -> "C" [] ch = "s" -> "S" [] OTHER -> ch
\* String.prototype.toUpperCase
ToUpperCase(x) == Str([i \in DOMAIN x.v |-> Upper(x.v[i])])

\* bcrypt.hash and bcrypt.compare
Hash(password) == [bcrypt |-> password]
Compare(password, hash) == hash = Hash(password)

\* Array.prototype.includes
Includes(arr, x) == \E i \in 1..Len(arr) : arr[i] = x
\* $push
Push(arr, x) == Append(arr, x)
\* Pull with a slip: $pop, removes the last element whatever it is
PullLast(arr, x) == IF arr = <<>> THEN arr ELSE SubSeq(arr, 1, Len(arr) - 1)
\* Pull with a slip: the update matches nothing
PullNone(arr, x) == arr
\* $pull: removes every occurrence
Pull(arr, x) == SelectSeq(arr, LAMBDA e : e # x)

\* result of findOne when nothing matches
NoDoc == [null |-> TRUE]

(* ------------------------------- state --------------------------------- *)
VARIABLES
  studentsCollection,  \* _id -> student document
  coursesCollection,   \* _id -> course document
  usedObjectIds,       \* ObjectIds already generated
  req,                 \* request handlers: position, locals, response
  faultsLeft,          \* store calls that may still throw
  audit,               \* whether the history fields below are recorded
  last,                \* the drop request that completed just before, if any
  User,                \* mongoose model User: _id -> user document
  Course               \* mongoose model Course: _id -> course document

\* the collections of the course API servers (src/server.js, part_001)
mongoose == <<User, Course>>

vars == <<studentsCollection, coursesCollection, usedObjectIds, req, faultsLeft,
          audit, last, User, Course>>

Store == [students |-> studentsCollection, courses |-> coursesCollection]
NoStore == [students |-> <<>>, courses |-> <<>>]

NoRes == [status |-> 0, error |-> "", course |-> NoDoc]
NoLast == [op |-> "none", studentId |-> "none", id |-> "none", status |-> 0,
           course |-> NoDoc]

\* the string fields of a request body
Body(email, password, studentId, courseCode) ==
  [email |-> email, password |-> password, studentId |-> studentId,
   courseCode |-> courseCode]
NoBody == Body(Undefined, Undefined, Undefined, Undefined)

\* what the AI endpoint answered: nothing yet, or its kind and the course
\* codes in its text
AiResult(kind, codes) == [kind |-> kind, codes |-> codes]
NoAi == AiResult("none", {})

ReqIdle == [op |-> "none", pc |-> "idle", token |-> "none",
            studentId |-> "none", id |-> "none", body |-> NoBody,
            query |-> Undefined, ai |-> NoAi,
            capacity |-> Undefined, course |-> NoDoc,
            todo |-> {}, res |-> NoRes, pre |-> NoStore, prev |-> NoLast]

Active(r) == req[r].pc \notin {"idle", "done"}

\* History kept for the properties, recorded when audit is set: the request
\* and the response res of a handler that is done; pre, the store when its
\* request arrived; prev, the value of last when its request arrived.
Handler == 1

(* ------------------------------ documents ------------------------------ *)
\* the student document the register handler builds from the body
NewStudent(email, hashedPassword, studentId) ==
  [email |-> Bson(email), password |-> hashedPassword,
   studentId |-> Bson(studentId), enrolledCourses |-> <<>>]

\* what the students that registered before the first step sent
SeedEmail(s) == Str(<<s, "@", "x">>)
SeedCode(s) == Str(<<"S", s>>)
SeedPassword == Str(<<"p">>)
Registered(s) == NewStudent(SeedEmail(s), Hash(SeedPassword), SeedCode(s))

(* --------------------------- request plumbing -------------------------- *)
\* bearer tokens a caller can present: no header, a token jwt.verify
\* rejects, or the token signed for a registered student
NoToken == "none"
BadToken == "bad"
Tokens == {NoToken, BadToken} \cup StudentIds

\* the responses of the enrollment routes
Ok(course) == [status |-> 200, error |-> "", course |-> course]
CourseNotFound == [status |-> 404, error |-> "Course not found", course |-> NoDoc]
StudentNotFound == [status |-> 404, error |-> "Student not found", course |-> NoDoc]
AlreadyEnrolled == [status |-> 400, error |-> "Already enrolled in this course",
                    course |-> NoDoc]
CourseFull == [status |-> 400, error |-> "Course is full", course |-> NoDoc]

\* request bodies: the capacity field
DefaultCapacity == 30
BodyCapacities == {Undefined} \cup {Num(n) : n \in (0 - 1)..MaxCapacity}

Res(status, error) == [status |-> status, error |-> error, course |-> NoDoc]

\* authMiddleware with a slip: binds a fixed student instead of decoded.id
authMiddlewareFixedId(token) ==
  IF token = NoToken THEN [next |-> FALSE, studentId |-> "none",
                           res |-> Res(401, "No token provided")]
  ELSE IF token = BadToken THEN [next |-> FALSE, studentId |-> "none",
                                 res |-> Res(401, "Invalid token")]
  ELSE [next |-> TRUE, studentId |-> "s1", res |-> NoRes]

\* authMiddleware: 401 without calling next(), or req.studentId = decoded.id
authMiddleware(token) ==
  IF token = NoToken THEN [next |-> FALSE, studentId |-> "none",
                           res |-> Res(401, "No token provided")]
  ELSE IF token = BadToken THEN [next |-> FALSE, studentId |-> "none",
                                 res |-> Res(401, "Invalid token")]
  ELSE [next |-> TRUE, studentId |-> token, res |-> NoRes]

FindOne(coll, id) == IF id \in DOMAIN coll THEN coll[id] ELSE NoDoc

\* the handler record once the response is sent
Finish(rq, res) ==
  IF audit
  THEN [ReqIdle EXCEPT !.pc = "done", !.res = res, !.op = rq.op,
                       !.token = rq.token, !.studentId = rq.studentId,
                       !.id = rq.id, !.body = rq.body]
  ELSE [ReqIdle EXCEPT !.pc = "done"]

LastOf(rq, res) ==
  IF audit /\ rq.op = "drop"
  THEN [op |-> rq.op, studentId |-> rq.studentId, id |-> rq.id,
        status |-> res.status, course |-> FindOne(rq.pre.courses, rq.id)]
  ELSE NoLast

\* a request arrives at handler r
Begin(r, op, token, studentId, id, capacity, pc) ==
  [req EXCEPT ![r] =
     [ReqIdle EXCEPT !.op = op, !.pc = pc, !.token = token,
                     !.studentId = studentId,
                     !.id = id, !.capacity = capacity,
                     !.pre = IF audit THEN Store ELSE NoStore,
                     !.prev = IF audit THEN last ELSE NoLast]]

\* a request with the given body arrives at handler r, on a route without
\* authMiddleware
BeginBody(r, op, id, body, pc) ==
  /\ req' = [Begin(r, op, NoToken, "none", id, Undefined, pc) EXCEPT
               ![r].body = body]
  /\ last' = NoLast

\* a request with the given body arrives at handler r, on a protected route
BeginAuthBody(r, op, token, id, body, pc) ==
  LET a == authMiddleware(token)
      started == [Begin(r, op, token, a.studentId, id, Undefined, pc) EXCEPT
                    ![r].body = body]
  IN IF a.next
     THEN req' = started /\ last' = NoLast
     ELSE /\ req' = [started EXCEPT ![r] = Finish(started[r], a.res)]
          /\ last' = LastOf(started[r], a.res)

\* a request on a protected route arrives at handler r
BeginAuth(r, op, token, id, pc) == BeginAuthBody(r, op, token, id, NoBody, pc)

\* handler r sends its response
Respond(r, res) ==
  /\ req' = [req EXCEPT ![r] = Finish(req[r], res)]
  /\ last' = LastOf(req[r], res)

Goto(r, pc) == req' = [req EXCEPT ![r].pc = pc] /\ UNCHANGED last

(* ----------------------------- unique indexes --------------------------- *)
\* a write that leaves document id with this value in a uniquely indexed
\* field is rejected when another document holds the value (E11000)
DuplicateKey(coll, id, field, value) ==
  \E x \in DOMAIN coll \ {id} : coll[x][field] = value
E11000 == Res(500, "E11000 duplicate key error")

(* ------------------- POST /api/courses/:id/enroll ---------------------- *)
EnrollRequest(r, token, courseId) ==
  /\ ~Active(r)
  /\ BeginAuth(r, "enroll", token, courseId, "enrollFindCourse")
  /\ UNCHANGED <<studentsCollection, coursesCollection, usedObjectIds, faultsLeft, audit, mongoose>>

EnrollFindCourse(r) ==
  /\ req[r].pc = "enrollFindCourse"
  /\ req' = [req EXCEPT ![r].course = FindOne(coursesCollection, req[r].id),
                        ![r].pc = "enrollFindStudent"]
  /\ UNCHANGED <<studentsCollection, coursesCollection, usedObjectIds, faultsLeft, audit, last, mongoose>>

\* EnrollCheck with a slip: capacity compared with > instead of >=
EnrollCheckOffByOne(course, student, courseId) ==
  IF course = NoDoc THEN CourseNotFound
  ELSE IF student = NoDoc THEN StudentNotFound
  ELSE IF Includes(student.enrolledCourses, courseId) THEN AlreadyEnrolled
  ELSE IF Len(course.enrolledStudents) > ToNumber(course.capacity) THEN CourseFull
  ELSE NoRes

\* EnrollCheck with a slip: capacity checked before the already-enrolled check
EnrollCheckFullFirst(course, student, courseId) ==
  IF course = NoDoc THEN CourseNotFound
  ELSE IF student = NoDoc THEN StudentNotFound
  ELSE IF Len(course.enrolledStudents) >= ToNumber(course.capacity) THEN CourseFull
  ELSE IF Includes(student.enrolledCourses, courseId) THEN AlreadyEnrolled
  ELSE NoRes

\* EnrollCheck with a slip: 404 only when both documents are missing; with one
\* missing the property access on null throws and the catch answers 500
EnrollCheckBothMissing(course, student, courseId) ==
  IF course = NoDoc /\ student = NoDoc THEN CourseNotFound
  ELSE IF course = NoDoc \/ student = NoDoc
       THEN Res(500, "Cannot read properties of null")
  ELSE IF Includes(student.enrolledCourses, courseId) THEN AlreadyEnrolled
  ELSE IF Len(course.enrolledStudents) >= ToNumber(course.capacity) THEN CourseFull
  ELSE NoRes

\* the checks made between the two reads and the first write
EnrollCheck(course, student, courseId) ==
  IF course = NoDoc THEN CourseNotFound
  ELSE IF student = NoDoc THEN StudentNotFound
  ELSE IF Includes(student.enrolledCourses, courseId) THEN AlreadyEnrolled
  ELSE IF Len(course.enrolledStudents) >= ToNumber(course.capacity) THEN CourseFull
  ELSE NoRes

EnrollFindStudent(r) ==
  /\ req[r].pc = "enrollFindStudent"
  /\ LET student == FindOne(studentsCollection, req[r].studentId)
         res == EnrollCheck(req[r].course, student, req[r].id)
     IN IF res # NoRes
        THEN Respond(r, res)
        ELSE \* student is not read again; course only for the response
             /\ req' = [req EXCEPT ![r].pc = "enrollPushCourse",
                                   ![r].course = IF audit THEN @ ELSE NoDoc]
             /\ UNCHANGED last
  /\ UNCHANGED <<studentsCollection, coursesCollection, usedObjectIds, faultsLeft, audit, mongoose>>

EnrollPushCourse(r) ==
  /\ req[r].pc = "enrollPushCourse"
  /\ LET c == req[r].id
     IN IF c \in DOMAIN coursesCollection
        THEN /\ Len(coursesCollection[c].enrolledStudents) < MaxArrayLen
             /\ coursesCollection' =
                  [coursesCollection EXCEPT ![c].enrolledStudents =
                     Push(@, req[r].studentId)]
        ELSE UNCHANGED coursesCollection
  /\ req' = [req EXCEPT ![r].pc = "enrollPushStudent"]
  /\ UNCHANGED <<studentsCollection, usedObjectIds, faultsLeft, audit, last, mongoose>>

EnrollPushStudent(r) ==
  /\ req[r].pc = "enrollPushStudent"
  /\ LET s == req[r].studentId
     IN IF s \in DOMAIN studentsCollection
        THEN /\ Len(studentsCollection[s].enrolledCourses) < MaxArrayLen
             /\ studentsCollection' =
                  [studentsCollection EXCEPT ![s].enrolledCourses =
                     Push(@, req[r].id)]
        ELSE UNCHANGED studentsCollection
  /\ Respond(r, Ok(req[r].course))
  /\ UNCHANGED <<coursesCollection, usedObjectIds, faultsLeft, audit, mongoose>>

(* -------------------- POST /api/courses/:id/drop ----------------------- *)
DropRequest(r, token, courseId) ==
  /\ ~Active(r)
  /\ BeginAuth(r, "drop", token, courseId, "dropFindCourse")
  /\ UNCHANGED <<studentsCollection, coursesCollection, usedObjectIds, faultsLeft, audit, mongoose>>

DropFindCourse(r) ==
  /\ req[r].pc = "dropFindCourse"
  /\ IF FindOne(coursesCollection, req[r].id) = NoDoc
     THEN Respond(r, CourseNotFound)
     ELSE Goto(r, "dropPullCourse")
  /\ UNCHANGED <<studentsCollection, coursesCollection, usedObjectIds, faultsLeft, audit, mongoose>>

DropPullCourse(r) ==
  /\ req[r].pc = "dropPullCourse"
  /\ LET c == req[r].id
     IN IF c \in DOMAIN coursesCollection
        THEN coursesCollection' =
               [coursesCollection EXCEPT ![c].enrolledStudents =
                  Pull(@, req[r].studentId)]
        ELSE UNCHANGED coursesCollection
  /\ Goto(r, "dropPullStudent")
  /\ UNCHANGED <<studentsCollection, usedObjectIds, faultsLeft, audit, mongoose>>

DropPullStudent(r) ==
  /\ req[r].pc = "dropPullStudent"
  /\ LET s == req[r].studentId
     IN IF s \in DOMAIN studentsCollection
        THEN studentsCollection' =
               [studentsCollection EXCEPT ![s].enrolledCourses =
                  Pull(@, req[r].id)]
        ELSE UNCHANGED studentsCollection
  /\ Respond(r, Ok(NoDoc))
  /\ UNCHANGED <<coursesCollection, usedObjectIds, faultsLeft, audit, mongoose>>

(* ---------------------- DELETE /api/courses/:id ------------------------ *)
DeleteCourseRequest(r, token, courseId) ==
  /\ ~Active(r)
  /\ BeginAuth(r, "deleteCourse", token, courseId, "deleteCourseFindOneAndDelete")
  /\ UNCHANGED <<studentsCollection, coursesCollection, usedObjectIds, faultsLeft, audit, mongoose>>

DeleteCourseFindOneAndDelete(r) ==
  /\ req[r].pc = "deleteCourseFindOneAndDelete"
  /\ LET c == req[r].id
     IN IF c \in DOMAIN coursesCollection
        THEN /\ coursesCollection' =
                  [x \in DOMAIN coursesCollection \ {c} |-> coursesCollection[x]]
             /\ req' = [req EXCEPT ![r].pc = "deleteCourseUpdateMany",
                                   ![r].todo = DOMAIN studentsCollection]
             /\ UNCHANGED last
        ELSE /\ Respond(r, CourseNotFound)
             /\ UNCHANGED coursesCollection
  /\ UNCHANGED <<studentsCollection, usedObjectIds, faultsLeft, audit, mongoose>>

\* DeleteCourseUpdateMany with a slip: updateOne, a single student is updated
DeleteCourseUpdateOne(r) ==
  /\ req[r].pc = "deleteCourseUpdateMany"
  /\ IF req[r].todo = {}
     THEN UNCHANGED studentsCollection
     ELSE \E s \in req[r].todo :
            /\ \A x \in req[r].todo : s = "s1" \/ x # "s1"
            /\ IF s \in DOMAIN studentsCollection
               THEN studentsCollection' =
                      [studentsCollection EXCEPT ![s].enrolledCourses =
                         Pull(@, req[r].id)]
               ELSE UNCHANGED studentsCollection
  /\ Respond(r, Ok(NoDoc))
  /\ UNCHANGED <<coursesCollection, usedObjectIds, faultsLeft, audit, mongoose>>

\* updateMany writes the matching documents one at a time; each write is
\* atomic, the whole call is not
DeleteCourseUpdateMany(r) ==
  /\ req[r].pc = "deleteCourseUpdateMany"
  /\ IF req[r].todo = {}
     THEN /\ Respond(r, Ok(NoDoc))
          /\ UNCHANGED studentsCollection
     ELSE \E s \in req[r].todo :
            /\ IF s \in DOMAIN studentsCollection
               THEN studentsCollection' =
                      [studentsCollection EXCEPT ![s].enrolledCourses =
                         Pull(@, req[r].id)]
               ELSE UNCHANGED studentsCollection
            /\ IF req[r].todo = {s}
               THEN Respond(r, Ok(NoDoc))
               ELSE /\ req' = [req EXCEPT ![r].todo = @ \ {s}]
                    /\ UNCHANGED last
  /\ UNCHANGED <<coursesCollection, usedObjectIds, faultsLeft, audit, mongoose>>

(* ---------------------- DELETE /api/students/:id ----------------------- *)
DeleteStudentRequest(r, token, id) ==
  /\ ~Active(r)
  /\ BeginAuth(r, "deleteStudent", token, id, "deleteStudentFindOneAndDelete")
  /\ UNCHANGED <<studentsCollection, coursesCollection, usedObjectIds, faultsLeft, audit, mongoose>>

\* DeleteStudentFindOneAndDelete with a slip: findOne, the student stays
DeleteStudentFindOnly(r) ==
  /\ req[r].pc = "deleteStudentFindOneAndDelete"
  /\ IF req[r].id \in DOMAIN studentsCollection
     THEN /\ req' = [req EXCEPT ![r].pc = "deleteStudentUpdateMany",
                                ![r].todo = DOMAIN coursesCollection]
          /\ UNCHANGED last
     ELSE Respond(r, StudentNotFound)
  /\ UNCHANGED <<studentsCollection, coursesCollection, usedObjectIds, faultsLeft, audit, mongoose>>

DeleteStudentFindOneAndDelete(r) ==
  /\ req[r].pc = "deleteStudentFindOneAndDelete"
  /\ LET s == req[r].id
     IN IF s \in DOMAIN studentsCollection
        THEN /\ studentsCollection' =
                  [x \in DOMAIN studentsCollection \ {s} |-> studentsCollection[x]]
             /\ req' = [req EXCEPT ![r].pc = "deleteStudentUpdateMany",
                                   ![r].todo = DOMAIN coursesCollection]
             /\ UNCHANGED last
        ELSE /\ Respond(r, StudentNotFound)
             /\ UNCHANGED studentsCollection
  /\ UNCHANGED <<coursesCollection, usedObjectIds, faultsLeft, audit, mongoose>>

DeleteStudentUpdateMany(r) ==
  /\ req[r].pc = "deleteStudentUpdateMany"
  /\ IF req[r].todo = {}
     THEN /\ Respond(r, Ok(NoDoc))
          /\ UNCHANGED coursesCollection
     ELSE \E c \in req[r].todo :
            /\ IF c \in DOMAIN coursesCollection
               THEN coursesCollection' =
                      [coursesCollection EXCEPT ![c].enrolledStudents =
                         Pull(@, req[r].id)]
               ELSE UNCHANGED coursesCollection
            /\ IF req[r].todo = {c}
               THEN Respond(r, Ok(NoDoc))
               ELSE /\ req' = [req EXCEPT ![r].todo = @ \ {c}]
                    /\ UNCHANGED last
  /\ UNCHANGED <<studentsCollection, usedObjectIds, faultsLeft, audit, mongoose>>

(* ------------------------- POST /api/courses --------------------------- *)
CreateCourseRequest(r, courseCode, capacity) ==
  /\ ~Active(r)
  /\ CourseIds \ usedObjectIds # {}
  /\ req' = [Begin(r, "createCourse", NoToken, "none", "none", capacity,
                   "createCourseInsertOne")
               EXCEPT ![r].body = Body(Undefined, Undefined, Undefined, courseCode)]
  /\ last' = NoLast
  /\ UNCHANGED <<studentsCollection, coursesCollection, usedObjectIds, faultsLeft, audit, mongoose>>

\* the course document the handler builds from the body
NewCourse(courseCode, capacity) ==
  [courseCode |-> Bson(courseCode),
   capacity |-> IF Truthy(capacity) THEN capacity ELSE Num(DefaultCapacity),
   enrolledStudents |-> <<>>]

\* the code of the course that gets ObjectId c when every course is created
\* with a code of its own
SeedCourseCode(c) == Str(<<"C", c>>)

\* the ObjectId insertOne generates: one that was never used
NewObjectId == CHOOSE c \in CourseIds \ usedObjectIds :
                 \A d \in CourseIds \ usedObjectIds : c = "c1" \/ d # "c1"

CourseCodeExists == Res(400, "Course code already exists")

\* insertOne under the unique index on courseCode
CreateCourseInsertOne(r) ==
  /\ req[r].pc = "createCourseInsertOne"
  /\ CourseIds \ usedObjectIds # {}
  /\ LET course == NewCourse(req[r].body.courseCode, req[r].capacity)
     IN IF DuplicateKey(coursesCollection, NewObjectId, "courseCode",
                        course.courseCode)
        THEN /\ Respond(r, CourseCodeExists)
             /\ UNCHANGED <<coursesCollection, usedObjectIds>>
        ELSE /\ coursesCollection' =
                  [x \in DOMAIN coursesCollection \cup {NewObjectId} |->
                     IF x = NewObjectId THEN course ELSE coursesCollection[x]]
             /\ usedObjectIds' = usedObjectIds \cup {NewObjectId}
             /\ req' = [req EXCEPT ![r] =
                          Finish([req[r] EXCEPT !.id = NewObjectId], Res(201, ""))]
             /\ last' = NoLast
  /\ UNCHANGED <<studentsCollection, faultsLeft, audit, mongoose>>

(* ------------------------ PUT /api/courses/:id ------------------------- *)
UpdateCourseRequest(r, courseId, courseCode, capacity) ==
  /\ ~Active(r)
  /\ req' = [Begin(r, "updateCourse", NoToken, "none", courseId, capacity,
                   "updateCourseFindOneAndUpdate")
               EXCEPT ![r].body = Body(Undefined, Undefined, Undefined, courseCode)]
  /\ last' = NoLast
  /\ UNCHANGED <<studentsCollection, coursesCollection, usedObjectIds, faultsLeft, audit, mongoose>>

UpdateCourseFindOneAndUpdate(r) ==
  /\ req[r].pc = "updateCourseFindOneAndUpdate"
  /\ LET c == req[r].id
         courseCode == Bson(req[r].body.courseCode)
     IN IF c \notin DOMAIN coursesCollection
        THEN /\ Respond(r, CourseNotFound)
             /\ UNCHANGED coursesCollection
        ELSE IF DuplicateKey(coursesCollection, c, "courseCode", courseCode)
        THEN /\ Respond(r, E11000)
             /\ UNCHANGED coursesCollection
        ELSE /\ coursesCollection' =
                  [coursesCollection EXCEPT
                     ![c].courseCode = courseCode,
                     ![c].capacity = Bson(req[r].capacity)]
             /\ Respond(r, Ok(NoDoc))
  /\ UNCHANGED <<studentsCollection, usedObjectIds, faultsLeft, audit, mongoose>>

(* --------------------- POST /api/students/register --------------------- *)
StudentAlreadyExists == Res(400, "Student already exists")
IllegalArguments == Res(500, "Illegal arguments")

RegisterRequest(r, email, password, studentId) ==
  /\ ~Active(r)
  /\ StudentIds \ usedObjectIds # {}
  /\ BeginBody(r, "register", "none", Body(email, password, studentId, Undefined),
               "registerFindOne")
  /\ UNCHANGED <<studentsCollection, coursesCollection, usedObjectIds, faultsLeft, audit, mongoose>>

\* findOne({$or: [{email}, {studentId}]}), then bcrypt.hash
RegisterFindOne(r) ==
  /\ req[r].pc = "registerFindOne"
  /\ LET body == req[r].body
         existingStudent ==
           \E s \in DOMAIN studentsCollection :
              \/ studentsCollection[s].email = Bson(body.email)
              \/ studentsCollection[s].studentId = Bson(body.studentId)
     IN IF existingStudent THEN Respond(r, StudentAlreadyExists)
        ELSE IF body.password.t # "string" THEN Respond(r, IllegalArguments)
        ELSE Goto(r, "registerInsertOne")
  /\ UNCHANGED <<studentsCollection, coursesCollection, usedObjectIds, faultsLeft, audit, mongoose>>

\* the ObjectId insertOne generates for a student
NewStudentId == CHOOSE s \in StudentIds \ usedObjectIds : TRUE

\* insertOne under the unique indexes on email and studentId; a rejected
\* insert lands in the catch block
RegisterInsertOne(r) ==
  /\ req[r].pc = "registerInsertOne"
  /\ StudentIds \ usedObjectIds # {}
  /\ LET body == req[r].body
         student == NewStudent(body.email, Hash(body.password), body.studentId)
     IN IF \/ DuplicateKey(studentsCollection, NewStudentId, "email", student.email)
           \/ DuplicateKey(studentsCollection, NewStudentId, "studentId",
                           student.studentId)
        THEN /\ Respond(r, E11000)
             /\ UNCHANGED <<studentsCollection, usedObjectIds>>
        ELSE /\ studentsCollection' =
                  [x \in DOMAIN studentsCollection \cup {NewStudentId} |->
                     IF x = NewStudentId THEN student ELSE studentsCollection[x]]
             /\ usedObjectIds' = usedObjectIds \cup {NewStudentId}
             /\ req' = [req EXCEPT ![r] =
                          Finish([req[r] EXCEPT !.id = NewStudentId], Res(201, ""))]
             /\ last' = NoLast
  /\ UNCHANGED <<coursesCollection, faultsLeft, audit, mongoose>>

(* ----------------------- POST /api/students/login ---------------------- *)
InvalidCredentials == Res(401, "Invalid credentials")

LoginRequest(r, email, password) ==
  /\ ~Active(r)
  /\ BeginBody(r, "login", "none", Body(email, password, Undefined, Undefined),
               "loginFindOne")
  /\ UNCHANGED <<studentsCollection, coursesCollection, usedObjectIds, faultsLeft, audit, mongoose>>

\* LoginCheck with a slip: an unknown email is reported as such
LoginCheckNotFound(student, password) ==
  IF student = NoDoc THEN StudentNotFound
  ELSE IF password.t # "string" THEN IllegalArguments
  ELSE IF ~Compare(password, student.password) THEN InvalidCredentials
  ELSE Res(200, "")

\* the response for the document findOne({email}) returned; bcrypt.compare
\* throws on a password that is not a string
LoginCheck(student, password) ==
  IF student = NoDoc THEN InvalidCredentials
  ELSE IF password.t # "string" THEN IllegalArguments
  ELSE IF ~Compare(password, student.password) THEN InvalidCredentials
  ELSE Res(200, "")

\* findOne by a field value
FindOneBy(coll, field, value) ==
  IF \E x \in DOMAIN coll : coll[x][field] = value
  THEN coll[CHOOSE x \in DOMAIN coll : coll[x][field] = value]
  ELSE NoDoc

LoginFindOne(r) ==
  /\ req[r].pc = "loginFindOne"
  /\ Respond(r, LoginCheck(FindOneBy(studentsCollection, "email",
                                     Bson(req[r].body.email)),
                           req[r].body.password))
  /\ UNCHANGED <<studentsCollection, coursesCollection, usedObjectIds, faultsLeft, audit, mongoose>>

(* ---------------------- GET /api/students/profile ---------------------- *)
ProfileRequest(r, token) ==
  /\ ~Active(r)
  /\ BeginAuth(r, "profile", token, "none", "profileFindOne")
  /\ UNCHANGED <<studentsCollection, coursesCollection, usedObjectIds, faultsLeft, audit, mongoose>>

ProfileFindOne(r) ==
  /\ req[r].pc = "profileFindOne"
  /\ LET student == FindOne(studentsCollection, req[r].studentId)
     IN IF student = NoDoc THEN Respond(r, StudentNotFound)
        ELSE IF student.enrolledCourses # <<>> THEN Goto(r, "profileFind")
        ELSE Respond(r, Ok(NoDoc))
  /\ UNCHANGED <<studentsCollection, coursesCollection, usedObjectIds, faultsLeft, audit, mongoose>>

\* the details of the enrolled courses are read and sent
ProfileFind(r) ==
  /\ req[r].pc = "profileFind"
  /\ Respond(r, Ok(NoDoc))
  /\ UNCHANGED <<studentsCollection, coursesCollection, usedObjectIds, faultsLeft, audit, mongoose>>

(* ---------------------- PUT /api/students/profile ---------------------- *)
UpdateProfileRequest(r, token, email) ==
  /\ ~Active(r)
  /\ BeginAuthBody(r, "updateProfile", token, "none",
                   Body(email, Undefined, Undefined, Undefined),
                   "updateProfileFindOneAndUpdate")
  /\ UNCHANGED <<studentsCollection, coursesCollection, usedObjectIds, faultsLeft, audit, mongoose>>

\* $set {name, email} under the unique index on email
UpdateProfileFindOneAndUpdate(r) ==
  /\ req[r].pc = "updateProfileFindOneAndUpdate"
  /\ LET s == req[r].studentId
         email == Bson(req[r].body.email)
     IN IF s \notin DOMAIN studentsCollection
        THEN /\ Respond(r, StudentNotFound)
             /\ UNCHANGED studentsCollection
        ELSE IF DuplicateKey(studentsCollection, s, "email", email)
        THEN /\ Respond(r, E11000)
             /\ UNCHANGED studentsCollection
        ELSE /\ studentsCollection' =
                  [studentsCollection EXCEPT ![s].email = email]
             /\ Respond(r, Ok(NoDoc))
  /\ UNCHANGED <<coursesCollection, usedObjectIds, faultsLeft, audit, mongoose>>

(* ------------------ GET /api/students/courses/enrolled ----------------- *)
EnrolledRequest(r, token) ==
  /\ ~Active(r)
  /\ BeginAuth(r, "enrolled", token, "none", "enrolledFindOne")
  /\ UNCHANGED <<studentsCollection, coursesCollection, usedObjectIds, faultsLeft, audit, mongoose>>

EnrolledFindOne(r) ==
  /\ req[r].pc = "enrolledFindOne"
  /\ LET student == FindOne(studentsCollection, req[r].studentId)
     IN IF student = NoDoc \/ student.enrolledCourses = <<>>
        THEN Respond(r, Ok(NoDoc))
        ELSE Goto(r, "enrolledFind")
  /\ UNCHANGED <<studentsCollection, coursesCollection, usedObjectIds, faultsLeft, audit, mongoose>>

EnrolledFind(r) ==
  /\ req[r].pc = "enrolledFind"
  /\ Respond(r, Ok(NoDoc))
  /\ UNCHANGED <<studentsCollection, coursesCollection, usedObjectIds, faultsLeft, audit, mongoose>>

(* ------------------- src/server.js: GET /api/me ------------------------ *)
\* ObjectIds of the users of the course API server, and what they
\* registered with
UserIds == {"u1"}
RegisteredUser(u) == [email |-> Str(<<u, "@", "x">>), password |-> Hash(SeedPassword)]

\* authenticateToken: 401 without a token, 403 when jwt.verify fails, else
\* req.user is the decoded payload
authenticateToken(token) ==
  IF token = NoToken THEN [next |-> FALSE, userId |-> "none",
                           res |-> Res(401, "Access token required")]
  ELSE IF token = BadToken THEN [next |-> FALSE, userId |-> "none",
                                 res |-> Res(403, "Invalid or expired token")]
  ELSE [next |-> TRUE, userId |-> token, res |-> NoRes]

UserNotFound == Res(404, "User not found")

ApiMeRequest(r, token) ==
  /\ ~Active(r)
  /\ LET a == authenticateToken(token)
         started == Begin(r, "apiMe", token, a.userId, "none", Undefined,
                          "apiMeFindById")
     IN IF a.next
        THEN req' = started
        ELSE req' = [started EXCEPT ![r] = Finish(started[r], a.res)]
  /\ last' = NoLast
  /\ UNCHANGED <<studentsCollection, coursesCollection, usedObjectIds, faultsLeft, audit, mongoose>>

ApiMeFindById(r) ==
  /\ req[r].pc = "apiMeFindById"
  /\ IF FindOne(User, req[r].studentId) = NoDoc
     THEN Respond(r, UserNotFound)
     ELSE Respond(r, Ok(NoDoc))
  /\ UNCHANGED <<studentsCollection, coursesCollection, usedObjectIds, faultsLeft, audit, mongoose>>

(* ------------------- GET /api/courses?courseCode= ---------------------- *)
\* the response of a route that sends course documents: _id -> document
Found(courses) == [status |-> 200, error |-> "", course |-> courses]

\* String.prototype.includes on character sequences
Contains(text, part) ==
  \E i \in 0..(Len(text) - Len(part)) : SubSeq(text, i + 1, i + Len(part)) = part

\* {$regex: pattern, $options: 'i'} on a field value, for a pattern of letters
RegexI(pattern, value) ==
  /\ value.t = "string"
  /\ Contains(ToUpperCase(value).v, ToUpperCase(pattern).v)

\* find: the documents of coll with the matching ids
Find(coll, matching) == [x \in matching |-> coll[x]]

CoursesRequest(r, courseCode) ==
  /\ ~Active(r)
  /\ BeginBody(r, "courses", "none",
               Body(Undefined, Undefined, Undefined, courseCode), "coursesFind")
  /\ UNCHANGED <<studentsCollection, coursesCollection, usedObjectIds, faultsLeft, audit, mongoose>>

\* find(query).toArray(); the response carries the documents, the ids in
\* enrolledStudents replaced by the students' public fields
CoursesFind(r) ==
  /\ req[r].pc = "coursesFind"
  /\ LET courseCode == req[r].body.courseCode
         Query(course) ==
           courseCode.t = "string" => RegexI(courseCode, course.courseCode)
     IN Respond(r, Found(Find(coursesCollection,
                             {x \in DOMAIN coursesCollection :
                                Query(coursesCollection[x])})))
  /\ UNCHANGED <<studentsCollection, coursesCollection, usedObjectIds, faultsLeft, audit, mongoose>>

(* --------------------- POST /api/courses/ai-search --------------------- *)
\* the key is set in the environment
GOOGLE_API_KEY == TRUE

AiSearchFailed == Res(500, "AI search failed")

\* the checks before the first await
AiSearchRequest(r, query) ==
  /\ ~Active(r)
  /\ LET started == [Begin(r, "aiSearch", NoToken, "none", "none", Undefined,
                           "aiSearchFind") EXCEPT ![r].query = query]
         Answer(res) == [started EXCEPT ![r] = Finish(started[r], res)]
     IN IF ~GOOGLE_API_KEY
        THEN req' = Answer(Res(503, "AI search is not configured"))
        ELSE IF query.t # "string" \/ query.v = <<>>
        THEN req' = Answer(Res(400, "Search query is required"))
        ELSE req' = started
  /\ last' = NoLast
  /\ UNCHANGED <<studentsCollection, coursesCollection, usedObjectIds, faultsLeft, audit, mongoose>>

\* allCourses = find({}).toArray()
AiSearchFind(r) ==
  /\ req[r].pc = "aiSearchFind"
  /\ req' = [req EXCEPT ![r].course = Find(coursesCollection,
                                           DOMAIN coursesCollection),
                        ![r].pc = "aiSearchFetch"]
  /\ UNCHANGED <<studentsCollection, coursesCollection, usedObjectIds, faultsLeft, audit, last, mongoose>>

\* fetch: the call rejects (network error), or a response arrives
AiSearchFetch(r, aiResult) ==
  /\ req[r].pc = "aiSearchFetch"
  /\ IF aiResult.kind = "reject"
     THEN Respond(r, AiSearchFailed)
     ELSE /\ req' = [req EXCEPT ![r].ai = aiResult, ![r].pc = "aiSearchJson"]
          /\ UNCHANGED last
  /\ UNCHANGED <<studentsCollection, coursesCollection, usedObjectIds, faultsLeft, audit, mongoose>>

\* the regular search: new RegExp(query, 'i') tested on the fields of each
\* course (of which the documents here have the code)
Fallback(allCourses, query) ==
  Find(allCourses, {x \in DOMAIN allCourses :
                      RegexI(query, allCourses[x].courseCode)})

\* the response once geminiResponse.json() resolved: an error payload or a
\* response without candidates throws into the catch block; text that does
\* not parse counts as an empty list of codes
AiSearchResults(allCourses, query, ai) ==
  IF ai.kind \in {"error", "noCandidates"} THEN AiSearchFailed
  ELSE IF ai.kind = "codes" /\ ai.codes # {}
  THEN Found(Find(allCourses,
                  {x \in DOMAIN allCourses :
                     allCourses[x].courseCode \in ai.codes}))
  ELSE Found(Fallback(allCourses, query))

AiSearchJson(r) ==
  /\ req[r].pc = "aiSearchJson"
  /\ Respond(r, AiSearchResults(req[r].course, req[r].query, req[r].ai))
  /\ UNCHANGED <<studentsCollection, coursesCollection, usedObjectIds, faultsLeft, audit, mongoose>>

(* ------------------- src/server.js: course routes ---------------------- *)
\* ObjectIds of the documents of the Course model
ApiCourseIds == {"k1", "k2"}

\* new Course({courseCode: courseCode.toUpperCase(), ...})
NewApiCourse(courseCode) == [courseCode |-> ToUpperCase(courseCode)]

ApiCreateCourseRequest(r, courseCode) ==
  /\ ~Active(r)
  /\ ApiCourseIds \ usedObjectIds # {}
  /\ BeginBody(r, "apiCreateCourse", "none",
               Body(Undefined, Undefined, Undefined, courseCode),
               "apiCreateCourseFindOne")
  /\ UNCHANGED <<studentsCollection, coursesCollection, usedObjectIds, faultsLeft, audit, mongoose>>

\* validation of the body (courseName is always sent), then findOne by the
\* upper-cased code
ApiCreateCourseFindOne(r) ==
  /\ req[r].pc = "apiCreateCourseFindOne"
  /\ LET courseCode == req[r].body.courseCode
     IN IF courseCode.t # "string"
        THEN Respond(r, Res(400, "courseCode and courseName are required"))
        ELSE IF FindOneBy(Course, "courseCode", ToUpperCase(courseCode)) # NoDoc
        THEN Respond(r, Res(409, "Course with code already exists"))
        ELSE Goto(r, "apiCreateCourseSave")
  /\ UNCHANGED <<studentsCollection, coursesCollection, usedObjectIds, faultsLeft, audit, mongoose>>

NewApiCourseId == CHOOSE k \in ApiCourseIds \ usedObjectIds : TRUE

\* save under the unique index on courseCode
ApiCreateCourseSave(r) ==
  /\ req[r].pc = "apiCreateCourseSave"
  /\ ApiCourseIds \ usedObjectIds # {}
  /\ LET course == NewApiCourse(req[r].body.courseCode)
     IN IF DuplicateKey(Course, NewApiCourseId, "courseCode", course.courseCode)
        THEN /\ Respond(r, Res(500, "Server error while creating course"))
             /\ UNCHANGED <<Course, usedObjectIds>>
        ELSE /\ Course' = [x \in DOMAIN Course \cup {NewApiCourseId} |->
                             IF x = NewApiCourseId THEN course ELSE Course[x]]
             /\ usedObjectIds' = usedObjectIds \cup {NewApiCourseId}
             /\ req' = [req EXCEPT ![r] =
                          Finish([req[r] EXCEPT !.id = NewApiCourseId],
                                 [Res(201, "") EXCEPT !.course = course])]
             /\ last' = NoLast
  /\ UNCHANGED <<studentsCollection, coursesCollection, faultsLeft, audit, User>>

\* GET /api/courses/code/:courseCode
ApiCourseByCodeRequest(r, courseCode) ==
  /\ ~Active(r)
  /\ BeginBody(r, "apiCourseByCode", "none",
               Body(Undefined, Undefined, Undefined, courseCode),
               "apiCourseByCodeFindOne")
  /\ UNCHANGED <<studentsCollection, coursesCollection, usedObjectIds, faultsLeft, audit, mongoose>>

ApiCourseByCodeFindOne(r) ==
  /\ req[r].pc = "apiCourseByCodeFindOne"
  /\ LET course == FindOneBy(Course, "courseCode",
                             ToUpperCase(req[r].body.courseCode))
     IN IF course = NoDoc THEN Respond(r, Res(404, "Course with code not found"))
        ELSE Respond(r, Ok(course))
  /\ UNCHANGED <<studentsCollection, coursesCollection, usedObjectIds, faultsLeft, audit, mongoose>>

\* GET /api/courses?courseCode=
ApiCoursesRequest(r, courseCode) ==
  /\ ~Active(r)
  /\ BeginBody(r, "apiCourses", "none",
               Body(Undefined, Undefined, Undefined, courseCode), "apiCoursesFind")
  /\ UNCHANGED <<studentsCollection, coursesCollection, usedObjectIds, faultsLeft, audit, mongoose>>

\* filter.courseCode = courseCode.toUpperCase()
ApiCoursesFind(r) ==
  /\ req[r].pc = "apiCoursesFind"
  /\ LET courseCode == req[r].body.courseCode
         Filter(course) ==
           courseCode.t = "string" => course.courseCode = ToUpperCase(courseCode)
     IN Respond(r, Found(Find(Course,
                             {x \in DOMAIN Course : Filter(Course[x])})))
  /\ UNCHANGED <<studentsCollection, coursesCollection, usedObjectIds, faultsLeft, audit, mongoose>>

(* ------------- src/unnamed/part_001: GET /api/courses ------------------ *)
\* the earlier version of the course API server; its POST /api/courses
\* stores the upper-cased code like the one above
V1CoursesRequest(r, courseCode) ==
  /\ ~Active(r)
  /\ BeginBody(r, "v1Courses", "none",
               Body(Undefined, Undefined, Undefined, courseCode), "v1CoursesFind")
  /\ UNCHANGED <<studentsCollection, coursesCollection, usedObjectIds, faultsLeft, audit, mongoose>>

\* filter.courseCode = courseCode
V1CoursesFind(r) ==
  /\ req[r].pc = "v1CoursesFind"
  /\ LET courseCode == req[r].body.courseCode
         Filter(course) ==
           courseCode.t = "string" => course.courseCode = courseCode
     IN Respond(r, Found(Find(Course,
                             {x \in DOMAIN Course : Filter(Course[x])})))
  /\ UNCHANGED <<studentsCollection, coursesCollection, usedObjectIds, faultsLeft, audit, mongoose>>

(* ------------------------------ store error ---------------------------- *)
\* the store call handler r is waiting for rejects: the catch block of the
\* handler answers 500 with the error message
StoreError(r) ==
  /\ Active(r)
  /\ faultsLeft > 0
  /\ faultsLeft' = faultsLeft - 1
  /\ Respond(r, Res(500, "store error"))
  /\ UNCHANGED <<studentsCollection, coursesCollection, usedObjectIds, audit, mongoose>>

(* ---------------------------- specification ---------------------------- *)
\* the code an update request carries when it leaves the code as it is
SameCourseCode(c) ==
  IF c \in DOMAIN coursesCollection THEN coursesCollection[c].courseCode
  ELSE SeedCourseCode(c)

\* steps of the handlers when every store call resolves; every course is
\* created with a code of its own and keeps it
Next ==
  \/ \E r \in DOMAIN req, t \in Tokens, c \in CourseIds : EnrollRequest(r, t, c)
  \/ \E r \in DOMAIN req : EnrollFindCourse(r)
  \/ \E r \in DOMAIN req : EnrollFindStudent(r)
  \/ \E r \in DOMAIN req : EnrollPushCourse(r)
  \/ \E r \in DOMAIN req : EnrollPushStudent(r)
  \/ \E r \in DOMAIN req, t \in Tokens, c \in CourseIds : DropRequest(r, t, c)
  \/ \E r \in DOMAIN req : DropFindCourse(r)
  \/ \E r \in DOMAIN req : DropPullCourse(r)
  \/ \E r \in DOMAIN req : DropPullStudent(r)
  \/ \E r \in DOMAIN req, t \in Tokens, c \in CourseIds : DeleteCourseRequest(r, t, c)
  \/ \E r \in DOMAIN req : DeleteCourseFindOneAndDelete(r)
  \/ \E r \in DOMAIN req : DeleteCourseUpdateMany(r)
  \/ \E r \in DOMAIN req, t \in Tokens, s \in StudentIds : DeleteStudentRequest(r, t, s)
  \/ \E r \in DOMAIN req : DeleteStudentFindOneAndDelete(r)
  \/ \E r \in DOMAIN req : DeleteStudentUpdateMany(r)
  \/ \E r \in DOMAIN req, cap \in BodyCapacities :
        CreateCourseRequest(r, SeedCourseCode(NewObjectId), cap)
  \/ \E r \in DOMAIN req : CreateCourseInsertOne(r)
  \/ \E r \in DOMAIN req, c \in CourseIds, cap \in BodyCapacities :
        UpdateCourseRequest(r, c, SameCourseCode(c), cap)
  \/ \E r \in DOMAIN req : UpdateCourseFindOneAndUpdate(r)

\* the same, with store calls that may reject
NextFault == Next \/ \E r \in DOMAIN req : StoreError(r)

\* A database the server can be started on: the registered students (those
\* of gone were deleted since; their tokens are still valid), no course,
\* the ObjectIds of used already generated, and the given handlers idle.
Start(handlers, gone, used, faults, history) ==
  /\ studentsCollection = [s \in StudentIds \ gone |-> Registered(s)]
  /\ coursesCollection = <<>>
  /\ usedObjectIds = StudentIds \cup used
  /\ User = <<>>
  /\ Course = <<>>
  /\ req = [r \in handlers |-> ReqIdle]
  /\ faultsLeft = faults
  /\ audit = history
  /\ last = NoLast

\* concurrent requests of one student on one course
Init == Start(ReqIds, {"s2"}, {"c2"}, 0, FALSE)
Spec == Init /\ [][Next]_vars

\* one request at a time
InitSeq == Start({Handler}, {}, {}, 0, TRUE)
SpecSeq == InitSeq /\ [][Next]_vars

\* one request at a time, store calls may reject
InitFault == Start({Handler}, {"s2"}, {"c2"}, MaxFaults, TRUE)
SpecFault == InitFault /\ [][NextFault]_vars

\* Enroll requests of distinct students, all launched together on an empty
\* course; each handler is named after its student.
RaceStudents == StudentIds \cup {"s3"}
RaceCourse == "c1"

InitRace ==
  /\ studentsCollection = [s \in RaceStudents |-> Registered(s)]
  /\ User = <<>>
  /\ Course = <<>>
  /\ \E cap \in 1..MaxCapacity :
        coursesCollection =
          [c \in {RaceCourse} |-> NewCourse(SeedCourseCode(c), Num(cap))]
  /\ usedObjectIds = RaceStudents \cup CourseIds
  /\ req = [s \in RaceStudents |->
              [ReqIdle EXCEPT !.op = "enroll", !.pc = "enrollFindCourse",
                              !.token = s, !.studentId = s, !.id = RaceCourse]]
  /\ faultsLeft = 0
  /\ audit = TRUE
  /\ last = NoLast

NextRace ==
  \/ \E r \in DOMAIN req : EnrollFindCourse(r)
  \/ \E r \in DOMAIN req : EnrollFindStudent(r)
  \/ \E r \in DOMAIN req : EnrollPushCourse(r)
  \/ \E r \in DOMAIN req : EnrollPushStudent(r)

SpecRace == InitRace /\ [][NextRace]_vars

(* ------------------------------ accounts ------------------------------- *)
\* what the bodies of the account routes carry
BodyEmails == {Undefined, Str(<<"a">>), Str(<<"b">>)}
BodyPasswords == {Undefined, Str(<<"p">>), Str(<<"q">>)}
BodyStudentIds == {Str(<<"1">>), Str(<<"2">>)}
\* the course codes requests carry: a letter in either case, repeated
CodeChars == {"c", "C"}
BodyCourseCodes ==
  {Undefined} \cup
  {Str(chars) : chars \in UNION {[1..n -> CodeChars] : n \in 1..MaxCodeLen}}
\* no header, a token jwt.verify rejects, or a token a registration returned
IssuedTokens == {NoToken, BadToken} \cup (StudentIds \cap usedObjectIds)

NextAccounts ==
  \/ \E r \in DOMAIN req, e \in BodyEmails, p \in BodyPasswords,
         k \in BodyStudentIds : RegisterRequest(r, e, p, k)
  \/ \E r \in DOMAIN req : RegisterFindOne(r)
  \/ \E r \in DOMAIN req : RegisterInsertOne(r)
  \/ \E r \in DOMAIN req, e \in BodyEmails, p \in BodyPasswords :
        LoginRequest(r, e, p)
  \/ \E r \in DOMAIN req : LoginFindOne(r)
  \/ \E r \in DOMAIN req, t \in IssuedTokens, e \in BodyEmails :
        UpdateProfileRequest(r, t, e)
  \/ \E r \in DOMAIN req : UpdateProfileFindOneAndUpdate(r)

\* nobody has registered yet; one request at a time
InitAccounts ==
  /\ studentsCollection = <<>>
  /\ coursesCollection = <<>>
  /\ usedObjectIds = CourseIds
  /\ req = [r \in {Handler} |-> ReqIdle]
  /\ faultsLeft = 0
  /\ audit = TRUE
  /\ last = NoLast
  /\ User = <<>>
  /\ Course = <<>>

SpecAccounts == InitAccounts /\ [][NextAccounts]_vars

\* Two registrations launched together on an empty collection.
InitRegisterRace ==
  /\ studentsCollection = <<>>
  /\ coursesCollection = <<>>
  /\ usedObjectIds = CourseIds
  /\ \E body \in [ReqIds -> {Body(e, p, k, Undefined) :
                                e \in BodyEmails, p \in BodyPasswords,
                                k \in BodyStudentIds}] :
        req = [r \in ReqIds |->
                 [ReqIdle EXCEPT !.op = "register", !.pc = "registerFindOne",
                                 !.body = body[r]]]
  /\ faultsLeft = 0
  /\ audit = TRUE
  /\ last = NoLast
  /\ User = <<>>
  /\ Course = <<>>

NextRegisterRace ==
  \/ \E r \in DOMAIN req : RegisterFindOne(r)
  \/ \E r \in DOMAIN req : RegisterInsertOne(r)

SpecRegisterRace == InitRegisterRace /\ [][NextRegisterRace]_vars

(* ---------------------------- protected routes ------------------------ *)
\* the routes behind authMiddleware (portal server) and behind
\* authenticateToken (course API server), one request at a time
NextGate ==
  \/ \E r \in DOMAIN req, t \in Tokens, c \in CourseIds : EnrollRequest(r, t, c)
  \/ \E r \in DOMAIN req : EnrollFindCourse(r)
  \/ \E r \in DOMAIN req : EnrollFindStudent(r)
  \/ \E r \in DOMAIN req : EnrollPushCourse(r)
  \/ \E r \in DOMAIN req : EnrollPushStudent(r)
  \/ \E r \in DOMAIN req, t \in Tokens, c \in CourseIds : DropRequest(r, t, c)
  \/ \E r \in DOMAIN req : DropFindCourse(r)
  \/ \E r \in DOMAIN req : DropPullCourse(r)
  \/ \E r \in DOMAIN req : DropPullStudent(r)
  \/ \E r \in DOMAIN req, t \in Tokens, c \in CourseIds : DeleteCourseRequest(r, t, c)
  \/ \E r \in DOMAIN req : DeleteCourseFindOneAndDelete(r)
  \/ \E r \in DOMAIN req : DeleteCourseUpdateMany(r)
  \/ \E r \in DOMAIN req, t \in Tokens, s \in StudentIds : DeleteStudentRequest(r, t, s)
  \/ \E r \in DOMAIN req : DeleteStudentFindOneAndDelete(r)
  \/ \E r \in DOMAIN req : DeleteStudentUpdateMany(r)
  \/ \E r \in DOMAIN req, t \in Tokens : ProfileRequest(r, t)
  \/ \E r \in DOMAIN req : ProfileFindOne(r)
  \/ \E r \in DOMAIN req : ProfileFind(r)
  \/ \E r \in DOMAIN req, t \in Tokens, e \in BodyEmails :
        UpdateProfileRequest(r, t, e)
  \/ \E r \in DOMAIN req : UpdateProfileFindOneAndUpdate(r)
  \/ \E r \in DOMAIN req, t \in Tokens : EnrolledRequest(r, t)
  \/ \E r \in DOMAIN req : EnrolledFindOne(r)
  \/ \E r \in DOMAIN req : EnrolledFind(r)
  \/ \E r \in DOMAIN req, t \in {NoToken, BadToken} \cup UserIds :
        ApiMeRequest(r, t)
  \/ \E r \in DOMAIN req : ApiMeFindById(r)

\* the students and the users registered, one course stored
InitGate ==
  /\ studentsCollection = [s \in StudentIds |-> Registered(s)]
  /\ coursesCollection =
       [c \in {"c1"} |-> NewCourse(SeedCourseCode(c), Num(MaxCapacity))]
  /\ usedObjectIds = StudentIds \cup CourseIds \cup UserIds
  /\ req = [r \in {Handler} |-> ReqIdle]
  /\ faultsLeft = 0
  /\ audit = TRUE
  /\ last = NoLast
  /\ User = [u \in UserIds |-> RegisteredUser(u)]
  /\ Course = <<>>

SpecGate == InitGate /\ [][NextGate]_vars

(* ------------------------- create, then fetch ------------------------- *)
\* course codes that are strings
CourseCodes == BodyCourseCodes \ {Undefined}

\* creating courses and fetching them by code, on each server
NextFetch ==
  \/ \E r \in DOMAIN req, k \in CourseCodes : CreateCourseRequest(r, k, Undefined)
  \/ \E r \in DOMAIN req : CreateCourseInsertOne(r)
  \/ \E r \in DOMAIN req, k \in BodyCourseCodes : CoursesRequest(r, k)
  \/ \E r \in DOMAIN req : CoursesFind(r)
  \/ \E r \in DOMAIN req, k \in BodyCourseCodes : ApiCreateCourseRequest(r, k)
  \/ \E r \in DOMAIN req : ApiCreateCourseFindOne(r)
  \/ \E r \in DOMAIN req : ApiCreateCourseSave(r)
  \/ \E r \in DOMAIN req, k \in CourseCodes : ApiCourseByCodeRequest(r, k)
  \/ \E r \in DOMAIN req : ApiCourseByCodeFindOne(r)
  \/ \E r \in DOMAIN req, k \in BodyCourseCodes : ApiCoursesRequest(r, k)
  \/ \E r \in DOMAIN req : ApiCoursesFind(r)
  \/ \E r \in DOMAIN req, k \in BodyCourseCodes : V1CoursesRequest(r, k)
  \/ \E r \in DOMAIN req : V1CoursesFind(r)

\* empty collections
InitFetch ==
  /\ studentsCollection = <<>>
  /\ coursesCollection = <<>>
  /\ usedObjectIds = {}
  /\ req = [r \in {Handler} |-> ReqIdle]
  /\ faultsLeft = 0
  /\ audit = TRUE
  /\ last = NoLast
  /\ User = <<>>
  /\ Course = <<>>

SpecFetch == InitFetch /\ [][NextFetch]_vars

(* ------------------------------ AI search ------------------------------ *)
\* the query of a search request
BodyQueries == {Undefined, Str(<<>>)} \cup CourseCodes
\* what the AI endpoint can answer: the call rejects, an error payload, a
\* response without candidates, text that is no JSON, or a list of codes
AiCodes == {Str(<<"c">>), Str(<<"C">>), Str(<<"C", "C">>)}
AiResults ==
  {AiResult(kind, {}) : kind \in {"reject", "error", "noCandidates", "unparseable"}}
    \cup {AiResult("codes", codes) : codes \in SUBSET AiCodes}

\* creating courses and searching them, one request at a time
NextSearch ==
  \/ \E r \in DOMAIN req, k \in CourseCodes : CreateCourseRequest(r, k, Undefined)
  \/ \E r \in DOMAIN req : CreateCourseInsertOne(r)
  \/ \E r \in DOMAIN req, q \in BodyQueries : AiSearchRequest(r, q)
  \/ \E r \in DOMAIN req : AiSearchFind(r)
  \/ \E r \in DOMAIN req, a \in AiResults : AiSearchFetch(r, a)
  \/ \E r \in DOMAIN req : AiSearchJson(r)

\* no course yet
InitSearch ==
  /\ studentsCollection = <<>>
  /\ coursesCollection = <<>>
  /\ usedObjectIds = {}
  /\ req = [r \in {Handler} |-> ReqIdle]
  /\ faultsLeft = 0
  /\ audit = TRUE
  /\ last = NoLast
  /\ User = <<>>
  /\ Course = <<>>

SpecSearch == InitSearch /\ [][NextSearch]_vars

(* ---------------------------- unique keys ------------------------------ *)
\* register, updateProfile, createCourse and updateCourse, one at a time
NextKeys ==
  \/ \E r \in DOMAIN req, e \in BodyEmails, k \in BodyStudentIds :
        RegisterRequest(r, e, SeedPassword, k)
  \/ \E r \in DOMAIN req : RegisterFindOne(r)
  \/ \E r \in DOMAIN req : RegisterInsertOne(r)
  \/ \E r \in DOMAIN req, t \in IssuedTokens, e \in BodyEmails :
        UpdateProfileRequest(r, t, e)
  \/ \E r \in DOMAIN req : UpdateProfileFindOneAndUpdate(r)
  \/ \E r \in DOMAIN req, k \in BodyCourseCodes :
        CreateCourseRequest(r, k, Undefined)
  \/ \E r \in DOMAIN req : CreateCourseInsertOne(r)
  \/ \E r \in DOMAIN req, c \in CourseIds, k \in BodyCourseCodes :
        UpdateCourseRequest(r, c, k, Num(DefaultCapacity))
  \/ \E r \in DOMAIN req : UpdateCourseFindOneAndUpdate(r)

\* empty collections
InitKeys ==
  /\ studentsCollection = <<>>
  /\ coursesCollection = <<>>
  /\ usedObjectIds = {}
  /\ req = [r \in {Handler} |-> ReqIdle]
  /\ faultsLeft = 0
  /\ audit = TRUE
  /\ last = NoLast
  /\ User = <<>>
  /\ Course = <<>>

SpecKeys == InitKeys /\ [][NextKeys]_vars

(* ------------------------------ properties ----------------------------- *)
Idle == \A r \in DOMAIN req : ~Active(r)
\* handler r sends its response in this step
Finishing(r) == Active(r) /\ req'[r].pc = "done"
\* the store after the step is st
StoreBecomes(st) ==
  studentsCollection' = st.students /\ coursesCollection' = st.courses
Without(arr, x) == SelectSeq(arr, LAMBDA e : e # x)
ValidToken(t) == t \in StudentIds \cup RaceStudents
\* a course holding exactly as many students as its positive capacity
ExactlyFull(course) ==
  /\ course # NoDoc
  /\ course.capacity.t = "number"
  /\ course.capacity.v >= 1
  /\ Len(course.enrolledStudents) = course.capacity.v

\* C1: once every started request has completed, a stored course is in a
\* stored student's enrolledCourses iff the student is in the course's
\* enrolledStudents.
BidirectionalWhenIdle ==
  Idle =>
    \A s \in DOMAIN studentsCollection, c \in DOMAIN coursesCollection :
      Includes(studentsCollection[s].enrolledCourses, c)
        <=> Includes(coursesCollection[c].enrolledStudents, s)

\* C2: every stored course has at most capacity enrolled students, in every
\* reachable state.
CapacityRespected ==
  \A c \in DOMAIN coursesCollection :
    LET capacity == coursesCollection[c].capacity
    IN \* the data model's capacities: positive integers
       (capacity.t = "number" /\ capacity.v >= 1)
         => Len(coursesCollection[c].enrolledStudents) <= capacity.v

\* C3: of capacity + k concurrent enrolls of distinct students on an empty
\* course exactly capacity succeed and k are answered CourseFull, and two
\* enrolls never both pass the capacity check when one slot remains.
EnrollRaceExact ==
  LET course == coursesCollection[RaceCourse]
      cap == ToNumber(course.capacity)
      succeeded == {r \in DOMAIN req : req[r].pc = "done" /\ req[r].res.status = 200}
      full == {r \in DOMAIN req : req[r].pc = "done" /\ req[r].res = CourseFull}
      passed == {r \in DOMAIN req : req[r].pc = "enrollPushCourse"}
  IN /\ Idle => /\ Cardinality(succeeded) = cap
                /\ Cardinality(full) = Cardinality(DOMAIN req) - cap
     /\ cap - Len(course.enrolledStudents) = 1 => Cardinality(passed) <= 1

\* C4: when the student-side add of an enroll fails after the course-side add
\* succeeded, the request ends with the pair in both sets or in neither.
EnrollCompensated ==
  [][\A r \in DOMAIN req :
       LET s == req[r].studentId
           c == req[r].id
       IN (/\ req[r].pc = "enrollPushStudent"
           /\ Finishing(r)
           /\ req'[r].res.status = 500
           /\ s \in DOMAIN studentsCollection'
           /\ c \in DOMAIN coursesCollection')
          => (Includes(studentsCollection'[s].enrolledCourses, c)
                <=> Includes(coursesCollection'[c].enrolledStudents, s))]_vars

\* C5: an enroll running alone, for a stored course with a free slot and the
\* stored student of the caller's token who does not have the course, answers
\* 200, appends the course to that student's enrolledCourses and the student
\* to the course's enrolledStudents, and changes nothing else in the store.
EnrollSucceedsAlone ==
  [][\A r \in DOMAIN req :
       LET s == req[r].token
           c == req[r].id
           pre == req[r].pre
       IN (/\ req[r].op = "enroll"
           /\ Finishing(r)
           /\ s \in DOMAIN pre.students
           /\ c \in DOMAIN pre.courses
           /\ ~Includes(pre.students[s].enrolledCourses, c)
           /\ Len(pre.courses[c].enrolledStudents) < ToNumber(pre.courses[c].capacity))
          => /\ req'[r].res.status = 200
             /\ studentsCollection' =
                  [pre.students EXCEPT ![s].enrolledCourses = Append(@, c)]
             /\ coursesCollection' =
                  [pre.courses EXCEPT ![c].enrolledStudents = Append(@, s)]]_vars

\* an enroll answered 200 with both sides written, a second course stored
EnrollSucceedsAloneWitness ==
  LET rq == req[Handler]
  IN /\ Handler \in DOMAIN req
     /\ rq.pc = "done" /\ rq.op = "enroll" /\ rq.res.status = 200
     /\ rq.token \in DOMAIN studentsCollection
     /\ rq.id \in DOMAIN coursesCollection
     /\ Includes(studentsCollection[rq.token].enrolledCourses, rq.id)
     /\ Includes(coursesCollection[rq.id].enrolledStudents, rq.token)
     /\ Cardinality(DOMAIN coursesCollection) = 2
     /\ \E s \in DOMAIN studentsCollection \ {rq.token} :
          studentsCollection[s].enrolledCourses # <<>>

\* C6: an enroll of a non-member in a course holding exactly capacity students
\* is answered CourseFull and changes nothing; the enroll of a non-member that
\* directly follows the drop of a member from such a course is answered 200
\* and puts the pair in both sets.
CourseFullAndSlotReuse ==
  [][\A r \in DOMAIN req :
       LET s == req[r].token
           c == req[r].id
           pre == req[r].pre
           prev == req[r].prev
           nonMember == /\ req[r].op = "enroll"
                        /\ Finishing(r)
                        /\ s \in DOMAIN pre.students
                        /\ c \in DOMAIN pre.courses
                        /\ ~Includes(pre.students[s].enrolledCourses, c)
                        /\ ~Includes(pre.courses[c].enrolledStudents, s)
       IN /\ (nonMember /\ ExactlyFull(pre.courses[c]))
             => (req'[r].res = CourseFull /\ StoreBecomes(pre))
          /\ (/\ nonMember
              /\ prev.op = "drop" /\ prev.status = 200 /\ prev.id = c
              /\ ExactlyFull(prev.course)
              /\ Includes(prev.course.enrolledStudents, prev.studentId))
             => /\ req'[r].res.status = 200
                /\ Includes(studentsCollection'[s].enrolledCourses, c)
                /\ Includes(coursesCollection'[c].enrolledStudents, s)]_vars

\* an enroll by another student past its checks, directly after a member was
\* dropped from a course that was exactly full
CourseFullAndSlotReuseWitness ==
  LET rq == req[Handler]
  IN /\ Handler \in DOMAIN req
     /\ rq.op = "enroll" /\ rq.pc = "enrollPushStudent"
     /\ rq.prev.op = "drop" /\ rq.prev.status = 200 /\ rq.prev.id = rq.id
     /\ ExactlyFull(rq.prev.course)
     /\ Includes(rq.prev.course.enrolledStudents, rq.prev.studentId)
     /\ rq.prev.studentId # rq.studentId
     /\ rq.id \in DOMAIN coursesCollection
     /\ Includes(coursesCollection[rq.id].enrolledStudents, rq.studentId)

\* C7: an enroll for a stored student whose enrolledCourses already holds the
\* stored course is answered AlreadyEnrolled, also when the course is full,
\* and changes nothing.
AlreadyEnrolledFirst ==
  [][\A r \in DOMAIN req :
       LET s == req[r].token
           c == req[r].id
           pre == req[r].pre
       IN (/\ req[r].op = "enroll"
           /\ Finishing(r)
           /\ s \in DOMAIN pre.students
           /\ c \in DOMAIN pre.courses
           /\ Includes(pre.students[s].enrolledCourses, c))
          => (req'[r].res = AlreadyEnrolled /\ StoreBecomes(pre))]_vars

\* an enroll answered AlreadyEnrolled on a course that is full
AlreadyEnrolledFirstWitness ==
  LET rq == req[Handler]
  IN /\ Handler \in DOMAIN req
     /\ rq.pc = "done" /\ rq.op = "enroll" /\ rq.res = AlreadyEnrolled
     /\ rq.id \in DOMAIN coursesCollection
     /\ ExactlyFull(coursesCollection[rq.id])
     /\ Includes(coursesCollection[rq.id].enrolledStudents, rq.token)

\* C8: an enroll for a course or a student that is not stored is answered 404
\* NotFound and changes no document.
EnrollNotFound ==
  [][\A r \in DOMAIN req :
       LET s == req[r].token
           c == req[r].id
           pre == req[r].pre
       IN (/\ req[r].op = "enroll"
           /\ Finishing(r)
           /\ ValidToken(s)
           /\ (s \notin DOMAIN pre.students \/ c \notin DOMAIN pre.courses))
          => /\ req'[r].res =
                  (IF c \notin DOMAIN pre.courses THEN CourseNotFound
                   ELSE StudentNotFound)
             /\ StoreBecomes(pre)]_vars

\* an enroll of a deleted student in a stored course, answered 404
EnrollNotFoundWitness ==
  LET rq == req[Handler]
  IN /\ Handler \in DOMAIN req
     /\ rq.pc = "done" /\ rq.op = "enroll" /\ rq.res = StudentNotFound
     /\ rq.id \in DOMAIN coursesCollection
     /\ rq.token \notin DOMAIN studentsCollection

\* C9: a drop that directly follows a completed drop of the same student and
\* course leaves the store as the first drop left it and is answered like
\* the first: 200 both times when the course is stored.
DropTwice ==
  [][\A r \in DOMAIN req :
       LET pre == req[r].pre
           prev == req[r].prev
       IN (/\ req[r].op = "drop"
           /\ Finishing(r)
           /\ ValidToken(req[r].token)
           /\ prev.op = "drop"
           /\ prev.studentId = req[r].token
           /\ prev.id = req[r].id)
          => /\ StoreBecomes(pre)
             /\ req'[r].res.status = prev.status
             /\ prev.course # NoDoc => req'[r].res.status = 200]_vars

\* a second drop about to answer, directly after a drop that removed the pair
DropTwiceWitness ==
  LET rq == req[Handler]
  IN /\ Handler \in DOMAIN req
     /\ rq.op = "drop" /\ rq.pc = "dropPullStudent"
     /\ rq.prev.op = "drop" /\ rq.prev.status = 200
     /\ rq.prev.studentId = rq.studentId /\ rq.prev.id = rq.id
     /\ Includes(rq.prev.course.enrolledStudents, rq.studentId)
     /\ Len(rq.prev.course.enrolledStudents) = 2

\* C10: a drop for a stored course is answered 200; it removes the course from
\* the caller's enrolledCourses and the caller from the course's
\* enrolledStudents and changes nothing else, so a pair that was in neither set
\* leaves the store unchanged.
DropEffect ==
  [][\A r \in DOMAIN req :
       LET s == req[r].token
           c == req[r].id
           pre == req[r].pre
       IN (/\ req[r].op = "drop"
           /\ Finishing(r)
           /\ ValidToken(s)
           /\ c \in DOMAIN pre.courses)
          => /\ req'[r].res = Ok(NoDoc)
             /\ coursesCollection' =
                  [pre.courses EXCEPT ![c].enrolledStudents = Without(@, s)]
             /\ studentsCollection' =
                  IF s \in DOMAIN pre.students
                  THEN [pre.students EXCEPT ![s].enrolledCourses = Without(@, c)]
                  ELSE pre.students
             /\ (/\ s \in DOMAIN pre.students
                 /\ ~Includes(pre.students[s].enrolledCourses, c)
                 /\ ~Includes(pre.courses[c].enrolledStudents, s))
                => StoreBecomes(pre)
             /\ (/\ s \in DOMAIN pre.students
                 /\ Includes(pre.students[s].enrolledCourses, c))
                => /\ ~Includes(studentsCollection'[s].enrolledCourses, c)
                   /\ ~Includes(coursesCollection'[c].enrolledStudents, s)]_vars

\* a drop of a pair that is in neither set about to answer, while the student
\* is enrolled in the other course
DropEffectWitness ==
  LET rq == req[Handler]
  IN /\ Handler \in DOMAIN req
     /\ rq.op = "drop" /\ rq.pc = "dropPullStudent"
     /\ rq.studentId \in DOMAIN rq.pre.students
     /\ ~Includes(rq.pre.students[rq.studentId].enrolledCourses, rq.id)
     /\ ~Includes(rq.pre.courses[rq.id].enrolledStudents, rq.studentId)
     /\ rq.pre.students[rq.studentId].enrolledCourses # <<>>
     /\ rq.pre.courses[rq.id].enrolledStudents # <<>>

\* C11: a completed deleteCourse of a stored course removes the course and
\* removes its id from every student's enrolledCourses; the other courses and
\* the other entries of the students stay as they were. For an id that is not
\* stored it answers 404 and changes nothing.
DeleteCourseCascade ==
  [][\A r \in DOMAIN req :
       LET c == req[r].id
           pre == req[r].pre
       IN (/\ req[r].op = "deleteCourse"
           /\ Finishing(r)
           /\ ValidToken(req[r].token))
          => IF c \in DOMAIN pre.courses
             THEN /\ req'[r].res = Ok(NoDoc)
                  /\ coursesCollection' =
                       [x \in DOMAIN pre.courses \ {c} |-> pre.courses[x]]
                  /\ studentsCollection' =
                       [s \in DOMAIN pre.students |->
                          [pre.students[s] EXCEPT
                             !.enrolledCourses = Without(@, c)]]
                  /\ \A s \in DOMAIN studentsCollection' :
                       ~Includes(studentsCollection'[s].enrolledCourses, c)
             ELSE /\ req'[r].res = CourseNotFound
                  /\ StoreBecomes(pre)]_vars

\* the delete of a course of two students has removed the course and is
\* updating the students, one of whom is enrolled in the other course too
DeleteCourseCascadeWitness ==
  LET rq == req[Handler]
  IN /\ Handler \in DOMAIN req
     /\ rq.op = "deleteCourse" /\ rq.pc = "deleteCourseUpdateMany"
     /\ rq.id \notin DOMAIN coursesCollection
     /\ Len(rq.pre.courses[rq.id].enrolledStudents) = 2
     /\ \A s \in DOMAIN rq.pre.students :
          Includes(rq.pre.students[s].enrolledCourses, rq.id)
     /\ \E s \in DOMAIN rq.pre.students :
          Len(rq.pre.students[s].enrolledCourses) = 2

\* C12: a completed deleteStudent of a stored student removes the student and
\* removes the id from every course's enrolledStudents, so each of these
\* courses holds one student fewer; the rest of the store stays as it was.
\* For an id that is not stored it answers 404 and changes nothing.
DeleteStudentCascade ==
  [][\A r \in DOMAIN req :
       LET s == req[r].id
           pre == req[r].pre
       IN (/\ req[r].op = "deleteStudent"
           /\ Finishing(r)
           /\ ValidToken(req[r].token))
          => IF s \in DOMAIN pre.students
             THEN /\ req'[r].res = Ok(NoDoc)
                  /\ studentsCollection' =
                       [x \in DOMAIN pre.students \ {s} |-> pre.students[x]]
                  /\ coursesCollection' =
                       [c \in DOMAIN pre.courses |->
                          [pre.courses[c] EXCEPT
                             !.enrolledStudents = Without(@, s)]]
                  /\ \A c \in DOMAIN pre.courses :
                       /\ ~Includes(coursesCollection'[c].enrolledStudents, s)
                       /\ Includes(pre.courses[c].enrolledStudents, s)
                          => Len(coursesCollection'[c].enrolledStudents)
                               < Len(pre.courses[c].enrolledStudents)
             ELSE /\ req'[r].res = StudentNotFound
                  /\ StoreBecomes(pre)]_vars

\* the delete of a student enrolled in two courses, one of them full, has
\* removed the student and is updating the courses
DeleteStudentCascadeWitness ==
  LET rq == req[Handler]
  IN /\ Handler \in DOMAIN req
     /\ rq.op = "deleteStudent" /\ rq.pc = "deleteStudentUpdateMany"
     /\ rq.id \notin DOMAIN studentsCollection
     /\ Len(rq.pre.students[rq.id].enrolledCourses) = 2
     /\ \A c \in DOMAIN rq.pre.courses :
          Includes(rq.pre.courses[c].enrolledStudents, rq.id)
     /\ \E c \in DOMAIN rq.pre.courses : ExactlyFull(rq.pre.courses[c])

\* an array without repeated elements
IsSet(arr) == \A i, j \in DOMAIN arr : arr[i] = arr[j] => i = j

\* C13: in every reachable state no enrolledCourses array holds a course id
\* twice and no enrolledStudents array holds a student id twice, also while
\* one student has two enroll requests for one course in flight.
MembershipNoDuplicates ==
  /\ \A s \in DOMAIN studentsCollection :
       IsSet(studentsCollection[s].enrolledCourses)
  /\ \A c \in DOMAIN coursesCollection :
       IsSet(coursesCollection[c].enrolledStudents)

\* C20: an enroll answered 200 carries the course as it is stored right after
\* the enrollment, with the caller in enrolledStudents.
EnrollReturnsUpdatedCourse ==
  [][\A r \in DOMAIN req :
       (/\ req[r].op = "enroll"
        /\ Finishing(r)
        /\ req'[r].res.status = 200)
       => /\ req'[r].res.course # NoDoc
          /\ Includes(req'[r].res.course.enrolledStudents, req[r].studentId)
          /\ req[r].id \in DOMAIN coursesCollection'
          /\ req'[r].res.course = coursesCollection'[req[r].id]]_vars

\* a stored student has this email
EmailStored(email) ==
  \E s \in DOMAIN studentsCollection : studentsCollection[s].email = Bson(email)
\* a stored student has this student code
StudentIdStored(studentId) ==
  \E s \in DOMAIN studentsCollection :
     studentsCollection[s].studentId = Bson(studentId)

\* C14: a registration answered while its email or its student code is
\* stored is answered 400 'Student already exists' and inserts nothing; of
\* two registrations launched together with the same email one is answered
\* 201 and the other 400.
RegisterDuplicate ==
  /\ [][\A r \in DOMAIN req :
          (/\ req[r].op = "register"
           /\ Finishing(r)
           /\ EmailStored(req[r].body.email)
                \/ StudentIdStored(req[r].body.studentId))
          => /\ req'[r].res = StudentAlreadyExists
             /\ UNCHANGED studentsCollection]_vars
  /\ [](\A r1, r2 \in DOMAIN req :
          (/\ r1 # r2
           /\ req[r1].pc = "done" /\ req[r2].pc = "done"
           /\ req[r1].op = "register" /\ req[r2].op = "register"
           /\ req[r1].body.email = req[r2].body.email
           /\ req[r1].body.password.t = "string"
           /\ req[r2].body.password.t = "string")
          => /\ Cardinality(DOMAIN studentsCollection) = 1
             /\ {req[r1].res.status, req[r2].res.status} = {201, 400})

Normalized(courseCode) ==
  IF courseCode.t = "string" THEN ToUpperCase(courseCode) ELSE courseCode

\* C15: in every reachable state no two stored students have the same email
\* or the same student code, and no two stored courses have the same course
\* code up to the case of its letters.
UniqueKeys ==
  /\ \A s1, s2 \in DOMAIN studentsCollection :
       s1 # s2 =>
         /\ studentsCollection[s1].email # studentsCollection[s2].email
         /\ studentsCollection[s1].studentId # studentsCollection[s2].studentId
  /\ \A c1, c2 \in DOMAIN coursesCollection :
       c1 # c2 =>
         Normalized(coursesCollection[c1].courseCode)
           # Normalized(coursesCollection[c2].courseCode)

\* C16: an update of a stored course is answered with an error when its body
\* carries another course code than the stored one, and no update changes
\* the stored code, which therefore stays the code the course was created
\* with.
CourseCodeImmutable ==
  [][\A r \in DOMAIN req :
       LET c == req[r].id
       IN (/\ req[r].op = "updateCourse"
           /\ Finishing(r)
           /\ c \in DOMAIN coursesCollection)
          => /\ c \in DOMAIN coursesCollection'
             /\ coursesCollection'[c].courseCode = coursesCollection[c].courseCode
             /\ req[r].body.courseCode # coursesCollection[c].courseCode
                => req'[r].res.status >= 400]_vars

\* the routes behind a token check
ProtectedOps == {"enroll", "drop", "deleteCourse", "deleteStudent", "profile",
                 "updateProfile", "enrolled", "apiMe"}

\* C18: a request on a protected route without a token is answered 401 (no
\* token), one with a token that does not verify is answered 401 (invalid
\* token); in both cases the response is sent at once, no step of the
\* handler follows, and the store stays as it is.
TokenGate ==
  [][\A r \in DOMAIN req :
       (/\ ~Active(r)
        /\ req'[r] # req[r]
        /\ req'[r].op \in ProtectedOps
        /\ req'[r].token \in {NoToken, BadToken})
       => /\ req'[r].pc = "done"
          /\ req'[r].res.status = 401
          /\ req'[r].res.error \in
               (IF req'[r].token = NoToken
                THEN {"No token provided", "Access token required"}
                ELSE {"Invalid token", "Invalid or expired token"})
          /\ UNCHANGED <<studentsCollection, coursesCollection, User, Course>>]_vars

\* the response res of a list route carries document x of coll
Lists(res, coll, x) ==
  /\ res.status = 200
  /\ x \in DOMAIN res.course
  /\ res.course[x] = coll[x]

\* C19: once a course is created with a code, a fetch by any variant of that
\* code in upper or lower case returns the stored record: the lookup by
\* code answers with it, and the list filtered by courseCode carries it.
CreateFetchRoundTrip ==
  [][\A r \in DOMAIN req :
       LET q == req[r].body.courseCode
       IN (Finishing(r) /\ q.t = "string")
          => /\ req[r].op = "apiCourseByCode"
                => \A x \in DOMAIN Course :
                     Normalized(Course[x].courseCode) = Normalized(q)
                       => req'[r].res = Ok(Course[x])
             /\ req[r].op \in {"apiCourses", "v1Courses"}
                => \A x \in DOMAIN Course :
                     Normalized(Course[x].courseCode) = Normalized(q)
                       => Lists(req'[r].res, Course, x)
             /\ req[r].op = "courses"
                => \A x \in DOMAIN coursesCollection :
                     Normalized(coursesCollection[x].courseCode) = Normalized(q)
                       => Lists(req'[r].res, coursesCollection, x)]_vars

\* C21: a register request without email, password or student code, and a
\* createCourse request without course code, is answered with a 4xx status
\* and stores no student and no course.
ValidationAtBoundary ==
  [][\A r \in DOMAIN req :
       LET body == req[r].body
       IN (/\ Finishing(r)
           /\ \/ /\ req[r].op = "register"
                 /\ \/ body.email.t # "string"
                    \/ body.password.t # "string"
                    \/ body.studentId.t # "string"
              \/ /\ req[r].op = "createCourse"
                 /\ body.courseCode.t # "string")
          => /\ req'[r].res.status \in 400..499
             /\ UNCHANGED <<studentsCollection, coursesCollection>>]_vars

\* C22: every stored course has a capacity that is a positive integer, also
\* after an update whose body has no capacity, zero or a negative one; a
\* course created without capacity has capacity 30.
CapacityPositive ==
  /\ [](\A c \in DOMAIN coursesCollection :
          /\ coursesCollection[c].capacity.t = "number"
          /\ coursesCollection[c].capacity.v >= 1)
  /\ [][\A r \in DOMAIN req :
          (/\ req[r].op = "createCourse"
           /\ Finishing(r)
           /\ req'[r].res.status = 201
           /\ req[r].capacity = Undefined)
          => coursesCollection'[req'[r].id].capacity = Num(DefaultCapacity)]_vars

\* C23: once every started request has completed, no stored student lists a
\* course that is not stored and no stored course lists a student that is
\* not stored, also when an enroll ran interleaved with a delete of its
\* course or of its student.
NoDanglingWhenIdle ==
  Idle =>
    /\ \A s \in DOMAIN studentsCollection :
         \A i \in DOMAIN studentsCollection[s].enrolledCourses :
           studentsCollection[s].enrolledCourses[i] \in DOMAIN coursesCollection
    /\ \A c \in DOMAIN coursesCollection :
         \A i \in DOMAIN coursesCollection[c].enrolledStudents :
           coursesCollection[c].enrolledStudents[i] \in DOMAIN studentsCollection

\* C24: when the AI call fails (the call rejects, an error payload, no
\* candidates) the search answers with the courses the regular search finds
\* for the query; when the AI returns a non-empty list of codes it answers
\* with exactly the stored courses whose code is in the list.
AiSearchFallback ==
  [][\A r \in DOMAIN req :
       LET rq == req[r]
           failed == \/ rq.pc = "aiSearchFetch"
                     \/ rq.pc = "aiSearchJson"
                        /\ rq.ai.kind \in {"error", "noCandidates"}
           listed == /\ rq.pc = "aiSearchJson"
                     /\ rq.ai.kind = "codes"
                     /\ rq.ai.codes # {}
       IN (rq.op = "aiSearch" /\ Finishing(r))
          => /\ failed
                => req'[r].res = Found(Fallback(coursesCollection, rq.query))
             /\ listed
                => req'[r].res =
                     Found(Find(coursesCollection,
                                {x \in DOMAIN coursesCollection :
                                   coursesCollection[x].courseCode
                                     \in rq.ai.codes}))]_vars

====
